---- MODULE Spec2Model ----
(***************************************************************************)
(* Linguist-Vision: the lesson round of App.tsx (lesson generation with    *)
(* the video operation poller of services/gemini.ts, evaluation, history)  *)
(* and the PCM16 audio decode pipeline of services/gemini.ts.              *)
(***************************************************************************)
EXTENDS Integers, Sequences, FiniteSets, TLC

\* ------------------------------------------------------------------ bounds
MaxBytes == 8
MaxChannels == 3

\* ------------------------------------------------- audio decode pipeline
VARIABLES data, numChannels, buffer

decVars == <<data, numChannels, buffer>>

\* Byte values the decoded payload is drawn from: they build the samples
\* 0, 127, 128, 255, 32767, -32768, -1, ...
ByteValues == {0, 127, 128, 255}

RECURSIVE SeqsUpTo(_, _)
SeqsUpTo(S, n) ==
  IF n = 0 THEN {<<>>}
  ELSE LET shorter == SeqsUpTo(S, n - 1)
       IN shorter \cup {Append(s, x) : s \in {t \in shorter : Len(t) = n - 1}, x \in S}

NaN == <<0, 0>>
\* undefined is the empty tuple, a number n the one-element tuple <<n>>.
UNDEFINED == <<>>

\* new Int16Array(data.buffer): element k (0-based) is the signed 16-bit
\* little-endian value of bytes 2k and 2k+1.
Int16At(bytes, k) ==
  LET u == bytes[2 * k + 1] + 256 * bytes[2 * k + 2]
  IN IF u >= 32768 THEN u - 65536 ELSE u

Int16Array(bytes) == [k \in 1..(Len(bytes) \div 2) |-> Int16At(bytes, k - 1)]

\* dataInt16[idx]: a typed-array read outside the array gives undefined.
ReadInt16(arr, idx) == IF idx >= 0 /\ idx < Len(arr) THEN <<arr[idx + 1]>> ELSE UNDEFINED

\* x / 32768.0 : the quotient as the exact fraction <<numerator, 32768>>
\* (every 16-bit numerator over 2^15 is a float32); undefined / 32768.0 is NaN.
\* the sample divided by the largest positive sample instead
Div32767(x) == IF x = UNDEFINED THEN NaN ELSE <<x[1], 32767>>

Div32768(x) == IF x = UNDEFINED THEN NaN ELSE <<x[1], 32768>>

\* channelData[i] = v : a typed-array write outside the array is ignored.
WriteFloat(arr, idx, v) ==
  IF idx >= 0 /\ idx < Len(arr) THEN [arr EXCEPT ![idx + 1] = v] ELSE arr

\* a rounding of the frame count upwards
CreateBufferLengthCeil(n, c) == (n + c - 1) \div c

\* ctx.createBuffer(numberOfChannels, length, sampleRate): length is an
\* unsigned long, so the quotient n / c is truncated; a zero length is
\* rejected with NotSupportedError.
CreateBufferLength(n, c) == n \div c

\* a planar reading of the input: channel after channel
RECURSIVE FillChannelPlanar(_, _, _, _, _)
FillChannelPlanar(channelData, dataInt16, c, channel, i) ==
  IF i * c < Len(dataInt16)
  THEN FillChannelPlanar(WriteFloat(channelData, i,
                            Div32768(ReadInt16(dataInt16, channel * Len(channelData) + i))),
                         dataInt16, c, channel, i + 1)
  ELSE channelData

\* The inner loop, for (let i = 0; i < frameCount; i++), frameCount being the
\* unrounded quotient n / c: i < n / c  iff  i * c < n.
RECURSIVE FillChannel(_, _, _, _, _)
FillChannel(channelData, dataInt16, c, channel, i) ==
  IF i * c < Len(dataInt16)
  THEN FillChannel(WriteFloat(channelData, i, Div32768(ReadInt16(dataInt16, i * c + channel))),
                   dataInt16, c, channel, i + 1)
  ELSE channelData

\* decodeAudioData(data, ctx, sampleRate, numChannels)
DecodeAudioData(bytes, c) ==
  IF Len(bytes) % 2 # 0
  THEN [status |-> "RangeError", channels |-> <<>>]
  ELSE LET dataInt16 == Int16Array(bytes)
           length == CreateBufferLength(Len(dataInt16), c)
       IN IF length = 0
          THEN [status |-> "NotSupportedError", channels |-> <<>>]
          ELSE [status |-> "ok",
                channels |-> [ch \in 1..c |->
                   FillChannel([j \in 1..length |-> <<0, 32768>>], dataInt16, c, ch - 1, 0)]]

NoBuffer == [status |-> "none", channels |-> <<>>]

InitDecodeVars ==
  /\ data = <<>>
  /\ numChannels = 1
  /\ buffer = NoBuffer

\* ------------------------------------------------------- lesson round
MaxCalls == 3
MaxPending == 4

\* the longest log that is kept whole: describe, submit, MaxPending - 1 times
\* delay and poll, fetch, blob
MaxLog == 2 * MaxPending + 3

VARIABLES
  mediaType,      \* useState<MediaType>('image')
  isLoading,      \* useState(false)
  currentPrompt,  \* useState<LessonPrompt | null>(null)
  userText,       \* useState('')
  feedback,       \* useState<Feedback | null>(null)
  history,        \* useState<HistoryItem[]>([])
  hasApiKey,      \* useState(true)
  keyCheck,       \* the mount effect's hasSelectedApiKey() call: "pending", "done"
  keyDialog,      \* an openSelectKey() call of handleSelectKey is pending
  unmounted,      \* a render threw: React has removed the component tree
  inflight,       \* the generateLessonPrompt / evaluateDescription calls not yet settled
  nextId,         \* source of the fresh ids (Math.random) of calls, prompts and items
  last            \* the call that the last step settled, with its outcome and
                  \* the text of its alert(...); NoCall after any other step

roundVars == <<mediaType, isLoading, currentPrompt, userText, feedback, history,
               hasApiKey, keyCheck, keyDialog, unmounted, inflight, nextId>>

appVars == <<roundVars, last>>

\* ---- handlePlayAudio
MaxPlays == 3

VARIABLES
  isPlayingAudio,   \* useState(false)
  audioContextRef,  \* useRef<AudioContext | null>(null): NoContext or the number of a context
  contexts,         \* the AudioContext objects constructed so far, by number
  plays,            \* the handlePlayAudio calls past their guard that have not finished
  nextPlay,         \* numbers the handlePlayAudio calls
  lastPlay          \* the handlePlayAudio call that the last step finished, with its
                    \* outcome; NoPlay after any other step

audioVars == <<isPlayingAudio, audioContextRef, contexts, plays, nextPlay, lastPlay>>

vars == <<appVars, audioVars, decVars>>

\* ---- values
MediaTypes == {"image", "video"}
Texts == {"", " ", "a"}
DescTexts == {"", "scene"}
Errors == {"Requested entity was not found", "other"}
RequiredFields == {"score", "corrections", "vocabularySuggestions",
                   "overallComment", "modelSampleDescription"}
Scores == {0, 100, 101}

\* userText.trim(): " " trims to the empty string
Trim(t) == IF t = " " THEN "" ELSE t

\* A LessonPrompt; null is the record of id 0.
NoPrompt == [id |-> 0, type |-> "none", url |-> "", description |-> ""]

\* What JSON.parse gives for the evaluation text: the set of keys of the object
\* and the value of its score key (0 when the key is absent). null is isNull.
NoFeedback == [isNull |-> TRUE, fields |-> {}, score |-> 0]
JsonObject(fs, sc) == [isNull |-> FALSE, fields |-> fs, score |-> IF "score" \in fs THEN sc ELSE 0]

\* response.text of the evaluation call: empty, not JSON, or a JSON object
\* that is complete or lacks one required field.
EvalTexts ==
  {[json |-> FALSE, empty |-> TRUE, obj |-> NoFeedback],
   [json |-> FALSE, empty |-> FALSE, obj |-> NoFeedback]}
  \cup {[json |-> TRUE, empty |-> FALSE, obj |-> JsonObject(RequiredFields, sc)] : sc \in Scores}
  \cup {[json |-> TRUE, empty |-> FALSE, obj |-> JsonObject(RequiredFields \ {f}, 50)] : f \in RequiredFields}

\* The parts of the image response (candidates?.[0]?.content?.parts || []):
\* "text" is a part without inlineData, any other value the data of an inline part.
ImageParts == {<<>>, <<"text">>, <<"d1">>, <<"text", "d1">>, <<"d2", "d1">>}

NoCall == [id |-> 0, kind |-> "none", pc |-> "none", type |-> "none",
           descText |-> "", visualPrompt |-> "", jobDone |-> FALSE, notDone |-> 0,
           waited |-> 0, parts |-> <<>>,
           log |-> <<>>, prompt |-> NoPrompt, text |-> "", url |-> "",
           error |-> "", failedAt |-> "", notice |-> "", result |-> NoFeedback]

\* setTimeout(resolve, 10000)
\* audioContextRef.current === null
NoContext == 0

\* responded: the speech request resolved with a response of these parts;
\* speechError, base64Audio: what generateSpeech threw or returned;
\* error: what the catch block of handlePlayAudio received
NoPlay == [id |-> 0, pc |-> "none", ctx |-> NoContext, responded |-> FALSE, parts |-> <<>>,
           speechError |-> "", base64Audio |-> "", error |-> ""]

\* parts of candidates[0] of a speech response: "text" is a part without
\* inlineData, any other string the inlineData.data of the part
SpeechParts == {<<>>, <<"text">>, <<"">>, <<"AAA=">>, <<"text", "AAA=">>, <<"/38AgA==", "AAA=">>,
                <<"AA==">>, <<" ">>, <<"!">>}

PollDelayMs == 10000

\* the pending statuses seen and the time waited are counted up to MaxPending
Sat(n) == IF n < MaxPending THEN n + 1 ELSE n
Waited(c) == IF c.notDone < MaxPending THEN c.waited + PollDelayMs ELSE c.waited
Logged(c, step) == IF Len(c.log) < MaxLog THEN Append(c.log, step) ELSE c.log

\* ---- what the render shows (App, lines 266, 385, 438)
\* feedback.vocabularySuggestions.map / feedback.corrections.length on a
\* feedback without that key throws during render.
RenderThrows(cp, ld, fb) ==
  /\ cp # NoPrompt /\ ~ld /\ ~fb.isNull
  /\ ~({"vocabularySuggestions", "corrections"} \subseteq fb.fields)

\* the setup screen shown whatever the loading flag
SetupScreenWhileLoading == ~unmounted /\ currentPrompt = NoPrompt

SetupScreen == ~unmounted /\ currentPrompt = NoPrompt /\ ~isLoading
LessonScreen == ~unmounted /\ currentPrompt # NoPrompt /\ ~isLoading
InputPanel == LessonScreen /\ feedback.isNull
FeedbackPanel == LessonScreen /\ ~feedback.isNull

InitApp ==
  /\ mediaType = "image"
  /\ isLoading = FALSE
  /\ currentPrompt = NoPrompt
  /\ userText = ""
  /\ feedback = NoFeedback
  /\ history = <<>>
  /\ hasApiKey = TRUE
  /\ keyCheck = "pending"
  /\ keyDialog = FALSE
  /\ unmounted = FALSE
  /\ inflight = {}
  /\ nextId = 1
  /\ last = NoCall
  /\ isPlayingAudio = FALSE
  /\ audioContextRef = NoContext
  /\ contexts = {}
  /\ plays = {}
  /\ nextPlay = 1
  /\ lastPlay = NoPlay

Init == InitApp /\ InitDecodeVars

\* ---- services/gemini.ts: generateLessonPrompt
\* a step that is not one of handlePlayAudio
NoAudioStep ==
  /\ lastPlay' = NoPlay
  /\ UNCHANGED <<isPlayingAudio, audioContextRef, contexts, plays, nextPlay>>

Fallback == "A professional office scene showing a business analyst working on project requirements."

\* the description text used as it came
VisualPromptRaw(text) == text

\* promptRequest.text || `A professional office scene ...`
VisualPrompt(text) == IF text = "" THEN Fallback ELSE text

\* the loop over the parts: the first part with inlineData gives the data URI
\* the loop without its break: the last part that carries an inline payload
ImageUrlLast(parts) ==
  LET inline == {i \in DOMAIN parts : parts[i] # "text"}
  IN IF inline = {} THEN ""
     ELSE "data:image/png;base64," \o parts[CHOOSE i \in inline : \A j \in inline : i >= j]

ImageUrl(parts) ==
  LET inline == {i \in DOMAIN parts : parts[i] # "text"}
  IN IF inline = {} THEN ""
     ELSE "data:image/png;base64," \o parts[CHOOSE i \in inline : \A j \in inline : i <= j]

\* the description and the image request issued together
NewLessonCallParallel(id, type) ==
  [NoCall EXCEPT !.id = id, !.kind = "lesson", !.pc = "describe", !.type = type,
                 !.log = <<"describe", "image">>]

\* ai.models.generateContent(description request) is issued on entry
NewLessonCall(id, type) ==
  [NoCall EXCEPT !.id = id, !.kind = "lesson", !.pc = "describe", !.type = type,
                 !.log = <<"describe">>]

\* after the description: if (type === 'image') generateContent else generateVideos
AfterDescription(c, text) ==
  LET next == IF c.type = "image" THEN "image" ELSE "submit"
  IN [c EXCEPT !.descText = text, !.visualPrompt = VisualPrompt(text),
               !.pc = next, !.log = Logged(c, next)]

\* a re-check issued at once, without the delay
AfterStatusNoDelay(c, done) ==
  IF ~done
  THEN [c EXCEPT !.pc = "poll", !.notDone = Sat(c.notDone), !.log = Logged(c, "poll")]
  ELSE [c EXCEPT !.pc = "fetch", !.log = Logged(c, "fetch")]

\* a poller that gives up waiting after two pending statuses
AfterStatusMaxAttempts(c, done) ==
  IF ~done /\ c.notDone < 2
  THEN [c EXCEPT !.pc = "delay", !.notDone = Sat(c.notDone), !.waited = Waited(c),
                 !.log = Logged(c, "delay")]
  ELSE [c EXCEPT !.pc = "fetch", !.log = Logged(c, "fetch")]

\* while (!operation.done) { await delay; operation = await getVideosOperation }
\* followed by the fetch of the download link
AfterStatus(c, done) ==
  IF ~done
  THEN [c EXCEPT !.pc = "delay", !.notDone = Sat(c.notDone), !.waited = Waited(c),
                 !.log = Logged(c, "delay")]
  ELSE [c EXCEPT !.pc = "fetch", !.log = Logged(c, "fetch")]

\* ---- services/gemini.ts: evaluateDescription
\* JSON.parse(response.text || '{}')
ParseFeedback(t) == IF t.empty THEN JsonObject({}, 0) ELSE t.obj

NewEvalCall(id, prompt, text) ==
  [NoCall EXCEPT !.id = id, !.kind = "eval", !.pc = "evaluate", !.prompt = prompt,
                 !.text = text, !.log = <<"evaluate">>]

\* ---- App.tsx handlers
\* the new item put last
PushHistoryEnd(prev, item) == prev \o <<item>>

\* setHistory(prev => [newItem, ...prev])
PushHistory(prev, item) == <<item>> \o prev

\* error?.message?.includes("Requested entity was not found")
NeedsKey(err) == err = "Requested entity was not found"

\* the mount effect: setHasApiKey(await window.aistudio.hasSelectedApiKey())
CheckKeyResolves ==
  /\ keyCheck = "pending"
  /\ \E selected \in BOOLEAN : hasApiKey' = selected
  /\ keyCheck' = "done"
  /\ UNCHANGED <<mediaType, isLoading, currentPrompt, userText, feedback, history, keyDialog, unmounted, inflight, nextId>>
  /\ last' = NoCall
  /\ NoAudioStep
  /\ UNCHANGED decVars

\* handleSelectKey up to its await (the Select Key button, line 279)
SelectKeyClick ==
  /\ SetupScreen /\ ~hasApiKey
  /\ ~keyDialog
  /\ keyDialog' = TRUE
  /\ UNCHANGED <<mediaType, isLoading, currentPrompt, userText, feedback, history, hasApiKey, keyCheck, unmounted, inflight, nextId>>
  /\ last' = NoCall
  /\ NoAudioStep
  /\ UNCHANGED decVars

\* handleSelectKey after openSelectKey(): setHasApiKey(true)
OpenSelectKeyResolves ==
  /\ keyDialog
  /\ keyDialog' = FALSE
  /\ hasApiKey' = TRUE
  /\ UNCHANGED <<mediaType, isLoading, currentPrompt, userText, feedback, history, keyCheck, unmounted, inflight, nextId>>
  /\ last' = NoCall
  /\ NoAudioStep
  /\ UNCHANGED decVars

\* the media type buttons (lines 342, 350)
SetMediaType ==
  /\ SetupScreen
  /\ \E t \in MediaTypes : t # mediaType /\ mediaType' = t
  /\ UNCHANGED <<isLoading, currentPrompt, userText, feedback, history, hasApiKey, keyCheck, keyDialog, unmounted, inflight, nextId>>
  /\ last' = NoCall
  /\ NoAudioStep
  /\ UNCHANGED decVars

\* handleStartLesson up to its await (the Start button, line 363)
StartLesson ==
  /\ SetupScreen
  /\ IF mediaType = "video" /\ ~hasApiKey
     THEN /\ ~keyDialog
          /\ keyDialog' = TRUE
          /\ UNCHANGED <<isLoading, userText, feedback, inflight, nextId>>
     ELSE /\ nextId <= MaxCalls
          /\ isLoading' = TRUE
          /\ feedback' = NoFeedback
          /\ userText' = ""
          /\ inflight' = inflight \cup {NewLessonCall(nextId, mediaType)}
          /\ nextId' = nextId + 1
          /\ UNCHANGED keyDialog
  /\ UNCHANGED <<mediaType, currentPrompt, history, hasApiKey, keyCheck, unmounted>>
  /\ last' = NoCall
  /\ NoAudioStep
  /\ UNCHANGED decVars

\* the textarea (line 465)
ChangeText ==
  /\ InputPanel
  /\ \E t \in Texts : t # userText /\ userText' = t
  /\ UNCHANGED <<mediaType, isLoading, currentPrompt, feedback, history, hasApiKey, keyCheck, keyDialog, unmounted, inflight, nextId>>
  /\ last' = NoCall
  /\ NoAudioStep
  /\ UNCHANGED decVars

\* handleSubmitDescription up to its await (the Evaluate button, lines 486-487)
SubmitDescription ==
  /\ InputPanel
  /\ ~(Trim(userText) = "" \/ isLoading)
  /\ ~(Trim(userText) = "" \/ currentPrompt = NoPrompt)
  /\ nextId <= MaxCalls
  /\ isLoading' = TRUE
  /\ inflight' = inflight \cup {NewEvalCall(nextId, currentPrompt, userText)}
  /\ nextId' = nextId + 1
  /\ UNCHANGED <<mediaType, currentPrompt, userText, feedback, history, hasApiKey, keyCheck, keyDialog, unmounted>>
  /\ last' = NoCall
  /\ NoAudioStep
  /\ UNCHANGED decVars

\* the New Scene button (line 429)
NewScene ==
  /\ LessonScreen
  /\ currentPrompt' = NoPrompt
  /\ feedback' = NoFeedback
  /\ userText' = ""
  /\ UNCHANGED <<mediaType, isLoading, history, hasApiKey, keyCheck, keyDialog, unmounted, inflight, nextId>>
  /\ last' = NoCall
  /\ NoAudioStep
  /\ UNCHANGED decVars

\* the Next Challenge button (line 588)
NextChallenge ==
  /\ FeedbackPanel
  /\ feedback' = NoFeedback
  /\ UNCHANGED <<mediaType, isLoading, currentPrompt, userText, history, hasApiKey, keyCheck, keyDialog, unmounted, inflight, nextId>>
  /\ last' = NoCall
  /\ NoAudioStep
  /\ UNCHANGED decVars

\* handleSelectHistoryItem (the history panel is rendered in every state)
SelectHistoryItem ==
  /\ ~unmounted
  /\ \E i \in DOMAIN history :
       /\ <<currentPrompt, userText, feedback>> #
             <<history[i].prompt, history[i].userDescription, history[i].feedback>>
       /\ currentPrompt' = history[i].prompt
       /\ userText' = history[i].userDescription
       /\ feedback' = history[i].feedback
       /\ unmounted' = RenderThrows(history[i].prompt, isLoading, history[i].feedback)
  /\ UNCHANGED <<mediaType, isLoading, history, hasApiKey, keyCheck, keyDialog, inflight, nextId>>
  /\ last' = NoCall
  /\ NoAudioStep
  /\ UNCHANGED decVars


\* ---- the rest of handleStartLesson, run when generateLessonPrompt settles
\* try: setCurrentPrompt(newPrompt); finally: setIsLoading(false)
LessonReturns(c, url) ==
  LET newPrompt == [id |-> c.id, type |-> c.type, url |-> url, description |-> c.visualPrompt]
  IN /\ currentPrompt' = newPrompt
     /\ isLoading' = FALSE
     /\ inflight' = {d \in inflight : d.id # c.id}
     /\ last' = [c EXCEPT !.pc = "returned", !.url = url]
     /\ unmounted' = (unmounted \/ RenderThrows(newPrompt, FALSE, feedback))
     /\ UNCHANGED <<mediaType, userText, feedback, history, hasApiKey, keyCheck, keyDialog, nextId>>
     /\ NoAudioStep
     /\ UNCHANGED decVars

\* catch: setHasApiKey(false) and an alert, or the other alert; finally: setIsLoading(false)
\* the catch block without the finally block: the loading flag stays set
LessonThrowsNoFinally(c, err) ==
  /\ hasApiKey' = IF NeedsKey(err) THEN FALSE ELSE hasApiKey
  /\ inflight' = inflight \ {c}
  /\ last' = [c EXCEPT !.pc = "threw", !.error = err, !.failedAt = c.pc,
                        !.notice = IF NeedsKey(err)
                                   THEN "Please re-select your API key to continue."
                                   ELSE "Failed to generate lesson. Please check your API key permissions."]
  /\ UNCHANGED <<mediaType, isLoading, currentPrompt, userText, feedback, history, keyCheck,
                 keyDialog, unmounted, nextId>>
  /\ NoAudioStep
  /\ UNCHANGED decVars

LessonThrows(c, err) ==
  /\ hasApiKey' = IF NeedsKey(err) THEN FALSE ELSE hasApiKey
  /\ isLoading' = FALSE
  /\ inflight' = inflight \ {c}
  /\ last' = [c EXCEPT !.pc = "threw", !.error = err, !.failedAt = c.pc,
                        !.notice = IF NeedsKey(err)
                                   THEN "Please re-select your API key to continue."
                                   ELSE "Failed to generate lesson. Please check your API key permissions."]
  /\ unmounted' = (unmounted \/ RenderThrows(currentPrompt, FALSE, feedback))
  /\ UNCHANGED <<mediaType, currentPrompt, userText, feedback, history, keyCheck, keyDialog, nextId>>
  /\ NoAudioStep
  /\ UNCHANGED decVars

\* a call of generateLessonPrompt stays in flight at its next await
LessonContinues(c, c2) ==
  /\ inflight' = (inflight \ {c}) \cup {c2}
  /\ UNCHANGED <<mediaType, isLoading, currentPrompt, userText, feedback, history, hasApiKey, keyCheck, keyDialog, unmounted, nextId>>
  /\ last' = NoCall
  /\ NoAudioStep
  /\ UNCHANGED decVars

\* ---- generateLessonPrompt, one action per await
\* the description request resolves with response text
DescribeSettles ==
  \E c \in inflight :
    /\ c.kind = "lesson" /\ c.pc = "describe"
    /\ \E text \in DescTexts : LessonContinues(c, AfterDescription(c, text))

\* the image request resolves: return { url: imageUrl, promptText: visualPrompt }
ImageSettles ==
  \E c \in inflight :
    /\ c.kind = "lesson" /\ c.pc = "image"
    /\ \E parts \in ImageParts : LessonReturns([c EXCEPT !.parts = parts], ImageUrl(parts))

\* generateVideos resolves with an operation that is done or not
SubmitSettles ==
  \E c \in inflight :
    /\ c.kind = "lesson" /\ c.pc = "submit"
    /\ \E done \in BOOLEAN :
         LessonContinues(c, AfterStatus([c EXCEPT !.jobDone = done], done))

\* the remote job finishes while the poller waits
JobCompletes ==
  \E c \in inflight :
    /\ c.kind = "lesson" /\ c.pc \in {"delay", "poll"} /\ ~c.jobDone
    /\ LessonContinues(c, [c EXCEPT !.jobDone = TRUE])

\* setTimeout(resolve, 10000) fires; getVideosOperation is called
DelayElapses ==
  \E c \in inflight :
    /\ c.kind = "lesson" /\ c.pc = "delay"
    /\ LessonContinues(c, [c EXCEPT !.pc = "poll", !.log = Logged(c, "poll")])

\* getVideosOperation resolves with the job's status
PollSettles ==
  \E c \in inflight :
    /\ c.kind = "lesson" /\ c.pc = "poll"
    /\ LessonContinues(c, AfterStatus(c, c.jobDone))

\* fetch(downloadLink) resolves; response.blob() is called
FetchSettles ==
  \E c \in inflight :
    /\ c.kind = "lesson" /\ c.pc = "fetch"
    /\ LessonContinues(c, [c EXCEPT !.pc = "blob", !.log = Logged(c, "blob")])

\* response.blob() resolves: return { url: URL.createObjectURL(blob), promptText }
BlobSettles ==
  \E c \in inflight :
    /\ c.kind = "lesson" /\ c.pc = "blob"
    /\ LessonReturns(c, "blob:video")

\* a rejected service call caught and issued again
LessonCallRetried ==
  \E c \in inflight :
    /\ c.kind = "lesson" /\ c.pc \in {"describe", "image", "submit", "poll", "fetch", "blob"}
    /\ \E err \in Errors :
         LessonContinues(c, [c EXCEPT !.error = err, !.failedAt = c.pc, !.log = Logged(c, c.pc)])

\* any awaited service call of generateLessonPrompt rejects (the timer cannot):
\* nothing in generateLessonPrompt catches it
LessonCallFails ==
  \E c \in inflight :
    /\ c.kind = "lesson" /\ c.pc \in {"describe", "image", "submit", "poll", "fetch", "blob"}
    /\ \E err \in Errors : LessonThrows(c, err)

\* ---- the rest of handleSubmitDescription, run when evaluateDescription settles
\* try: setFeedback(result); setHistory(prev => [newItem, ...prev]); finally: setIsLoading(false)
EvalReturns(c, result) ==
  LET newItem == [id |-> c.id, prompt |-> c.prompt, userDescription |-> c.text,
                  feedback |-> result]
  IN /\ feedback' = result
     /\ history' = PushHistory(history, newItem)
     /\ isLoading' = FALSE
     /\ inflight' = inflight \ {c}
     /\ last' = [c EXCEPT !.pc = "returned", !.result = result]
     /\ unmounted' = (unmounted \/ RenderThrows(currentPrompt, FALSE, result))
     /\ UNCHANGED <<mediaType, currentPrompt, userText, hasApiKey, keyCheck, keyDialog, nextId>>
     /\ NoAudioStep
     /\ UNCHANGED decVars

\* a catch block that also records the failed attempt in the history
EvalThrowsStoresItem(c, err) ==
  /\ history' = PushHistory(history, [id |-> c.id, prompt |-> c.prompt,
                                       userDescription |-> c.text, feedback |-> NoFeedback])
  /\ isLoading' = FALSE
  /\ inflight' = inflight \ {c}
  /\ last' = [c EXCEPT !.pc = "threw", !.error = err, !.failedAt = c.pc,
                        !.notice = "Evaluation failed. Please try again."]
  /\ UNCHANGED <<mediaType, currentPrompt, userText, feedback, hasApiKey, keyCheck, keyDialog,
                 unmounted, nextId>>
  /\ NoAudioStep
  /\ UNCHANGED decVars

\* catch: alert('Evaluation failed. Please try again.'); finally: setIsLoading(false)
EvalThrows(c, err) ==
  /\ isLoading' = FALSE
  /\ inflight' = inflight \ {c}
  /\ last' = [c EXCEPT !.pc = "threw", !.error = err, !.failedAt = c.pc,
                        !.notice = "Evaluation failed. Please try again."]
  /\ unmounted' = (unmounted \/ RenderThrows(currentPrompt, FALSE, feedback))
  /\ UNCHANGED <<mediaType, currentPrompt, userText, feedback, history, hasApiKey, keyCheck, keyDialog, nextId>>
  /\ NoAudioStep
  /\ UNCHANGED decVars

\* the evaluation request resolves: return JSON.parse(response.text || '{}'),
\* which throws a SyntaxError on text that is not JSON
EvaluateSettles ==
  \E c \in inflight :
    /\ c.kind = "eval" /\ c.pc = "evaluate"
    /\ \E t \in EvalTexts :
         IF ~t.empty /\ ~t.json
         THEN EvalThrows(c, "SyntaxError")
         ELSE EvalReturns(c, ParseFeedback(t))

\* the evaluation request rejects
EvaluateFails ==
  \E c \in inflight :
    /\ c.kind = "eval" /\ c.pc = "evaluate"
    /\ \E err \in Errors : EvalThrows(c, err)

\* ---- speech: generateSpeech, decodeBase64 and handlePlayAudio

\* response.candidates?.[0]?.content?.parts?.[0]?.inlineData?.data, and the
\* throw when it is undefined or the empty string
GenerateSpeech(parts) ==
  IF Len(parts) >= 1 /\ parts[1] \notin {"text", ""}
  THEN [error |-> "", value |-> parts[1]]
  ELSE [error |-> "No audio data received", value |-> ""]

\* atob and the copy of its char codes into a Uint8Array, on the payloads of
\* SpeechParts: atob strips white space and throws on a string that is not base64
DecodeBase64(base64) ==
  CASE base64 = "AAA="     -> [error |-> "", bytes |-> <<0, 0>>]
    [] base64 = "AA=="     -> [error |-> "", bytes |-> <<0>>]
    [] base64 = "/38AgA==" -> [error |-> "", bytes |-> <<255, 127, 0, 128>>]
    [] base64 = " "        -> [error |-> "", bytes |-> <<>>]
    [] OTHER               -> [error |-> "InvalidCharacterError", bytes |-> <<>>]

\* what the statements after generateSpeech throw, "" if the source starts:
\* decodeBase64(base64Audio), then decodeAudioData(bytes, ctx, 24000, 1)
PlaybackError(base64Audio) ==
  LET decoded == DecodeBase64(base64Audio)
  IN IF decoded.error # "" THEN decoded.error
     ELSE LET audioBuffer == DecodeAudioData(decoded.bytes, 1)
          IN IF audioBuffer.status = "ok" THEN "" ELSE audioBuffer.status

\* a step of handlePlayAudio leaves the lesson round alone
NoRoundStep ==
  /\ last' = NoCall
  /\ UNCHANGED roundVars

\* setIsPlayingAudio(false); no state is left to set after an unmount
ClearPlaying == isPlayingAudio' = IF unmounted THEN isPlayingAudio ELSE FALSE

\* a new context on every playback
NeedsContextAlways(ref) == TRUE

\* if (!audioContextRef.current)
NeedsContext(ref) == ref = NoContext

\* the play button and the guard of the handler let every click through
CanPlayAudioAlways == FeedbackPanel

\* the play button is rendered in the feedback panel, disabled={isPlayingAudio},
\* and the handler returns at once if (isPlayingAudio)
CanPlayAudio == FeedbackPanel /\ ~isPlayingAudio

\* a click on the play button: handlePlayAudio up to its await of generateSpeech.
\* The AudioContext constructor may throw, which ends in the catch block.
PlayAudio ==
  /\ CanPlayAudio
  /\ nextPlay <= MaxPlays
  /\ nextPlay' = nextPlay + 1
  /\ IF NeedsContext(audioContextRef)
     THEN \E constructed \in BOOLEAN :
            IF constructed
            THEN LET ctx == Cardinality(contexts) + 1
                 IN /\ contexts' = contexts \cup {ctx}
                    /\ audioContextRef' = ctx
                    /\ isPlayingAudio' = TRUE
                    /\ plays' = plays \cup {[NoPlay EXCEPT !.id = nextPlay, !.pc = "speech",
                                                          !.ctx = ctx]}
                    /\ lastPlay' = NoPlay
            ELSE /\ lastPlay' = [NoPlay EXCEPT !.id = nextPlay, !.pc = "threw",
                                               !.error = "AudioContext"]
                 /\ UNCHANGED <<contexts, audioContextRef, isPlayingAudio, plays>>
     ELSE /\ isPlayingAudio' = TRUE
          /\ plays' = plays \cup {[NoPlay EXCEPT !.id = nextPlay, !.pc = "speech",
                                                !.ctx = audioContextRef]}
          /\ lastPlay' = NoPlay
          /\ UNCHANGED <<contexts, audioContextRef>>
  /\ NoRoundStep
  /\ UNCHANGED decVars

\* catch: console.error(...); setIsPlayingAudio(false)
PlayThrows(p, p2, err) ==
  /\ ClearPlaying
  /\ plays' = plays \ {p}
  /\ lastPlay' = [p2 EXCEPT !.pc = "threw", !.error = err]
  /\ UNCHANGED <<audioContextRef, contexts, nextPlay>>

\* the speech request resolves: generateSpeech returns or throws, then the
\* bytes are decoded and the source is started, or a step of it throws
SpeechSettles ==
  /\ \E p \in plays :
       /\ p.pc = "speech"
       /\ \E parts \in SpeechParts :
            LET speech == GenerateSpeech(parts)
                p2 == [p EXCEPT !.responded = TRUE, !.parts = parts,
                                !.speechError = speech.error, !.base64Audio = speech.value]
            IN IF speech.error # "" THEN PlayThrows(p, p2, speech.error)
               ELSE IF PlaybackError(speech.value) # ""
                    THEN PlayThrows(p, p2, PlaybackError(speech.value))
                    ELSE /\ plays' = (plays \ {p}) \cup {[p2 EXCEPT !.pc = "playing"]}
                         /\ lastPlay' = NoPlay
                         /\ UNCHANGED <<isPlayingAudio, audioContextRef, contexts, nextPlay>>
  /\ NoRoundStep
  /\ UNCHANGED decVars

\* the speech request rejects
SpeechFails ==
  /\ \E p \in plays :
       /\ p.pc = "speech"
       /\ PlayThrows(p, [p EXCEPT !.speechError = "other"], "other")
  /\ NoRoundStep
  /\ UNCHANGED decVars

\* source.onended = () => setIsPlayingAudio(false)
AudioEnded ==
  /\ \E p \in plays :
       /\ p.pc = "playing"
       /\ ClearPlaying
       /\ plays' = plays \ {p}
       /\ lastPlay' = [p EXCEPT !.pc = "ended"]
       /\ UNCHANGED <<audioContextRef, contexts, nextPlay>>
  /\ NoRoundStep
  /\ UNCHANGED decVars

Next ==
  \/ CheckKeyResolves
  \/ SelectKeyClick
  \/ OpenSelectKeyResolves
  \/ SetMediaType
  \/ StartLesson
  \/ ChangeText
  \/ SubmitDescription
  \/ NewScene
  \/ NextChallenge
  \/ SelectHistoryItem
  \/ DescribeSettles
  \/ ImageSettles
  \/ SubmitSettles
  \/ JobCompletes
  \/ DelayElapses
  \/ PollSettles
  \/ FetchSettles
  \/ BlobSettles
  \/ LessonCallFails
  \/ EvaluateSettles
  \/ EvaluateFails

Spec == Init /\ [][Next]_vars

\* ---- lesson generation on its own: the setup screen, generateLessonPrompt and
\* the rest of handleStartLesson, without evaluation and history.
NextLesson ==
  \/ CheckKeyResolves
  \/ SelectKeyClick
  \/ OpenSelectKeyResolves
  \/ SetMediaType
  \/ StartLesson
  \/ NewScene
  \/ DescribeSettles
  \/ ImageSettles
  \/ SubmitSettles
  \/ JobCompletes
  \/ DelayElapses
  \/ PollSettles
  \/ FetchSettles
  \/ BlobSettles
  \/ LessonCallFails

\* The event loop runs every due timer and every settled promise's continuation,
\* and a pending service call settles; whether it resolves or rejects, and what
\* the user does, is free.
FairLesson ==
  /\ Init /\ [][NextLesson]_vars
  /\ WF_vars(DescribeSettles)
  /\ WF_vars(SubmitSettles)
  /\ WF_vars(DelayElapses)
  /\ WF_vars(PollSettles)
  /\ WF_vars(FetchSettles)
  /\ WF_vars(BlobSettles)

\* ---- playback on its own: rounds with an image up to the feedback panel,
\* and handlePlayAudio
NextAudio ==
  \/ StartLesson
  \/ DescribeSettles
  \/ ImageSettles
  \/ ChangeText
  \/ SubmitDescription
  \/ EvaluateSettles
  \/ NextChallenge
  \/ NewScene
  \/ SelectHistoryItem
  \/ PlayAudio
  \/ SpeechSettles
  \/ SpeechFails
  \/ AudioEnded

SpecAudio == Init /\ [][NextAudio]_vars

\* ---- playback within one scene: no new scene and no history selection
NextPlayback ==
  \/ StartLesson
  \/ DescribeSettles
  \/ ImageSettles
  \/ ChangeText
  \/ SubmitDescription
  \/ EvaluateSettles
  \/ NextChallenge
  \/ PlayAudio
  \/ SpeechSettles
  \/ SpeechFails
  \/ AudioEnded

\* A pending speech request settles, and a source that was started ends.
FairAudio ==
  /\ Init /\ [][NextPlayback]_vars
  /\ WF_vars(SpeechSettles)
  /\ WF_vars(AudioEnded)

\* ---- the decode pipeline on its own
InitDecode ==
  /\ InitApp
  /\ data \in SeqsUpTo(ByteValues, MaxBytes)
  /\ numChannels \in 1..MaxChannels
  /\ buffer = NoBuffer

Decode ==
  /\ buffer = NoBuffer
  /\ buffer' = DecodeAudioData(data, numChannels)
  /\ UNCHANGED <<data, numChannels>>
  /\ UNCHANGED <<appVars, audioVars>>

NextDecode == Decode

SpecDecode == InitDecode /\ [][NextDecode]_vars

\* ------------------------------------------------------------- claims
\* number of 16-bit samples of the input
NumSamples == Len(data) \div 2
WholeSamples == buffer # NoBuffer /\ Len(data) % 2 = 0

\* C5 as stated: for every N samples and every channel count C >= 1 the decode
\* produces a buffer of exactly floor(N/C) frames in each of the C channels.
C5_AnyInputGivesBuffer ==
  WholeSamples =>
    /\ buffer.status = "ok"
    /\ Len(buffer.channels) = numChannels
    /\ \A ch \in 1..numChannels : Len(buffer.channels[ch]) = NumSamples \div numChannels

\* C5 amended: with N >= C the buffer has C channels of exactly floor(N/C)
\* frames, and the trailing N mod C samples change no frame (the buffer equals
\* the decode of the input without them); with N < C the frame count is 0,
\* createBuffer rejects it and no buffer is produced.
C5_FrameCount ==
  WholeSamples =>
    IF NumSamples >= numChannels
    THEN /\ buffer.status = "ok"
         /\ Len(buffer.channels) = numChannels
         /\ \A ch \in 1..numChannels : Len(buffer.channels[ch]) = NumSamples \div numChannels
         /\ buffer = DecodeAudioData(
                SubSeq(data, 1, 2 * numChannels * (NumSamples \div numChannels)), numChannels)
    ELSE buffer.status = "NotSupportedError"

\* C5 witness: a decoded buffer whose input had samples left over
C5_Witness ==
  /\ WholeSamples /\ buffer.status = "ok"
  /\ numChannels = 2 /\ NumSamples = 3

\* C6: frame j of channel c holds input sample j*C + c over 32768, that is,
\* sample i is in channel i mod C at frame floor(i/C); every such index is
\* inside the input.
C6_Deinterleave ==
  (WholeSamples /\ buffer.status = "ok") =>
    /\ \A c \in 0..(numChannels - 1) : \A j \in 0..((NumSamples \div numChannels) - 1) :
         /\ j * numChannels + c < NumSamples
         /\ buffer.channels[c + 1][j + 1] = <<Int16At(data, j * numChannels + c), 32768>>
    /\ \A i \in 0..(numChannels * (NumSamples \div numChannels) - 1) :
         buffer.channels[(i % numChannels) + 1][(i \div numChannels) + 1]
           = <<Int16At(data, i), 32768>>

\* C6 witness: two channels of two frames from four different samples
C6_Witness ==
  /\ WholeSamples /\ buffer.status = "ok"
  /\ numChannels = 2 /\ NumSamples \div numChannels = 2
  /\ Cardinality({Int16At(data, i) : i \in 0..3}) = 4

\* ---- claims about the lesson round
Calls == inflight \cup {last}
VideoCalls == {c \in Calls : c.kind = "lesson" /\ c.type = "video"}
LessonSteps == {"describe", "image", "submit", "poll", "fetch", "blob"}

RECURSIVE DelayedRechecks(_)
DelayedRechecks(k) == IF k = 0 THEN <<>> ELSE <<"delay", "poll">> \o DelayedRechecks(k - 1)

\* C1: a video call whose job was seen not done k times (k below the bound on
\* the count) and then done has issued, after the submission, exactly k times
\* a delay of 10 seconds followed at once by a status re-check, and only then
\* the one fetch of the artifact; with k = 0 no delay and no re-check.
C1_PollerRechecks ==
  \A c \in VideoCalls :
    (c.pc \in {"fetch", "blob", "returned"} /\ c.notDone < MaxPending) =>
      /\ c.log = <<"describe", "submit">> \o DelayedRechecks(c.notDone)
                   \o (IF c.pc = "fetch" THEN <<"fetch">> ELSE <<"fetch", "blob">>)
      /\ c.waited = c.notDone * 10000

\* C1 witness: the call returned after three pending statuses
C1_Witness ==
  /\ last.kind = "lesson" /\ last.type = "video" /\ last.pc = "returned"
  /\ last.notDone = 3

\* the call with id i
Threw(i) == last.id = i /\ last.pc = "threw"
Returned(i) == last.id = i /\ last.pc = "returned"
VideoJobDone(i) == \E c \in inflight : c.id = i /\ c.type = "video" /\ c.jobDone
WaitingOnJob(i) == \E c \in inflight : c.id = i /\ c.pc = "delay" /\ ~c.jobDone
Rechecking(i) == \E c \in inflight : c.id = i /\ c.pc = "poll"

\* C2: the poller has no attempt limit and no timeout. A video call reaches the
\* artifact fetch, or returns, only with its job done; while the job is not
\* done every delay is followed by another re-check (unless a call fails); and
\* once the job is done the call returns a result, provided no call of it fails.
C2_NoAttemptLimit ==
  /\ [](\A c \in VideoCalls : c.pc \in {"fetch", "blob", "returned"} => c.jobDone)
  /\ \A i \in 1..MaxCalls : WaitingOnJob(i) ~> (Rechecking(i) \/ VideoJobDone(i))
  /\ \A i \in 1..MaxCalls : ([]~Threw(i)) => (VideoJobDone(i) ~> Returned(i))

\* C2 witness: a call still waiting after as many pending statuses as are counted
C2_Witness ==
  \E c \in inflight : c.type = "video" /\ c.pc = "delay" /\ c.notDone = MaxPending /\ ~c.jobDone

\* C3: a call of generateLessonPrompt that saw a service call fail is not in
\* flight any more, it threw that error at that step, and the failing step is
\* the last step it issued.
C3_FailurePropagates ==
  /\ \A c \in inflight : c.error = "" /\ c.failedAt = ""
  /\ (last.kind = "lesson" /\ last.pc = "threw") =>
       /\ last.error \in Errors
       /\ last.failedAt \in LessonSteps
       /\ Len(last.log) < MaxLog => last.log[Len(last.log)] = last.failedAt
       /\ \A c \in inflight : c.id # last.id
  /\ (last.kind = "lesson" /\ last.pc = "returned") => last.error = ""

\* C3 witness: a video call that threw at a status poll after a pending status
C3_Witness ==
  /\ last.kind = "lesson" /\ last.type = "video" /\ last.pc = "threw"
  /\ last.failedAt = "poll" /\ last.notDone = 2 /\ inflight = {}

\* C4: the prompt given to the image or video request is never empty: it is the
\* fallback when the description text was empty and the description text
\* otherwise, and it is the description of the prompt the call returns.
C4_PromptNeverEmpty ==
  /\ \A c \in Calls :
       (c.kind = "lesson" /\ Len(c.log) >= 2) =>
          /\ c.visualPrompt # ""
          /\ c.visualPrompt = (IF c.descText = "" THEN Fallback ELSE c.descText)
  /\ (last.kind = "lesson" /\ last.pc = "returned") =>
       currentPrompt.description = last.visualPrompt

\* C4 witness: a lesson returned after an empty description text
C4_Witness ==
  /\ last.kind = "lesson" /\ last.pc = "returned" /\ last.descText = ""
  /\ currentPrompt.description = Fallback

\* C7: the history only grows, at the front, one item per successful
\* evaluation: that step puts the item of the evaluated prompt, text and result
\* in front of the unchanged list, and no other step changes the list.
C7_HistoryAppendOnly ==
  [][IF last'.kind = "eval" /\ last'.pc = "returned"
     THEN /\ Len(history') = Len(history) + 1
          /\ Tail(history') = history
          /\ Head(history') = [id |-> last'.id, prompt |-> last'.prompt,
                               userDescription |-> last'.text, feedback |-> last'.result]
          /\ \A i \in DOMAIN history : history[i].id < last'.id
     ELSE history' = history]_vars

\* C7 witness: a second item has just been put in front of an older one
C7_Witness ==
  /\ last.kind = "eval" /\ last.pc = "returned"
  /\ Len(history) = 2 /\ history[1].id = last.id /\ history[2].id < history[1].id

Complete(fb) == ~fb.isNull /\ fb.fields = RequiredFields

\* C8 as stated: the displayed feedback and the feedback of every history item
\* have all the required fields.
C8_FeedbackComplete ==
  /\ feedback.isNull \/ Complete(feedback)
  /\ \A i \in DOMAIN history : Complete(history[i].feedback)

\* C9 as stated: every history item has a prompt and a complete feedback whose
\* score is from 0 to 100.
C9_HistoryItemsComplete ==
  \A i \in DOMAIN history :
    /\ history[i].prompt # NoPrompt
    /\ Complete(history[i].feedback)
    /\ history[i].feedback.score \in 0..100

\* C10: at most one generation or evaluation call is in flight, the loading
\* flag is set exactly while one is, and while it is set neither a lesson
\* start nor a submission can be made.
C10_OneRequestInFlight ==
  /\ Cardinality(inflight) <= 1
  /\ isLoading <=> inflight # {}
  /\ isLoading => ~ENABLED StartLesson /\ ~ENABLED SubmitDescription

\* C10 witness: a lesson request is in flight, there is no current prompt and
\* another call could still be made
C10_Witness ==
  /\ isLoading /\ Cardinality(inflight) = 1
  /\ currentPrompt = NoPrompt /\ nextId <= MaxCalls

\* C11: the steps of a round run one after the other. A lesson call issues the
\* description request first and nothing else while it is pending, then the
\* image request or the video submission; an evaluation is started with a
\* learner text, for the prompt of a lesson call that has returned before.
C11_RoundOrder ==
  /\ \A c \in Calls : c.kind = "lesson" =>
       /\ c.log[1] = "describe"
       /\ (c.pc = "describe" \/ c.failedAt = "describe") => c.log = <<"describe">>
       /\ Len(c.log) >= 2 => c.log[2] = (IF c.type = "image" THEN "image" ELSE "submit")
       /\ \A i \in 2..Len(c.log) : c.log[i] # "describe"
  /\ \A c \in Calls : c.kind = "eval" =>
       /\ c.prompt # NoPrompt /\ c.prompt.id < c.id
       /\ Trim(c.text) # ""
       /\ \A l \in inflight : l.kind = "lesson" => l.id # c.prompt.id

\* C11 witness: an evaluation in flight for the prompt of a video lesson
C11_Witness ==
  \E c \in inflight : c.kind = "eval" /\ c.prompt.type = "video" /\ c.prompt.id = 1

\* C13: an image lesson that returned carries the empty url when no part of
\* the response (a response without candidates or parts included) has an
\* inline payload, and otherwise the data URI built from the first part, in
\* response order, that has one; that url is the one of the displayed prompt.
C13_FirstInlinePart ==
  (last.kind = "lesson" /\ last.type = "image" /\ last.pc = "returned") =>
    LET parts == last.parts
        Inline(i) == parts[i] # "text"
    IN /\ currentPrompt.id = last.id /\ currentPrompt.url = last.url
       /\ IF \A i \in DOMAIN parts : ~Inline(i)
          THEN last.url = ""
          ELSE \E i \in DOMAIN parts :
                 /\ Inline(i)
                 /\ \A j \in 1..(i - 1) : ~Inline(j)
                 /\ last.url = "data:image/png;base64," \o parts[i]

\* C13 witness: two parts carry an inline payload and the first one is taken
C13_Witness ==
  /\ last.kind = "lesson" /\ last.pc = "returned"
  /\ last.parts = <<"d2", "d1">> /\ currentPrompt.url = "data:image/png;base64,d2"

\* C15: in the state a lesson generation or an evaluation has just settled,
\* with success or with a failure, the loading flag is cleared and no request
\* is left in flight; after a failure a notice has been shown to the user. The
\* loading flag is never set without the request that set it being in flight.
C15_LoadingCleared ==
  /\ last.kind \in {"lesson", "eval"} =>
       /\ last.pc \in {"returned", "threw"}
       /\ ~isLoading /\ inflight = {}
       /\ last.pc = "threw" => last.notice # ""
       /\ last.pc = "returned" => last.notice = ""
  /\ isLoading => \E c \in inflight : c.pc \notin {"returned", "threw"}

\* C15 witness: a video lesson has just failed at its download, after the job
\* was done, and the notice of the lesson failure is up
C15_Witness ==
  /\ last.kind = "lesson" /\ last.pc = "threw" /\ last.failedAt = "fetch"
  /\ last.notice = "Failed to generate lesson. Please check your API key permissions."
  /\ ~isLoading

\* C16: every value written to a decoded buffer is a 16-bit sample s divided
\* by 32768 and lies in [-1.0, 1.0): a value is the fraction <<num, den>>,
\* and -1 <= num/den < 1 is -den <= num < den for den > 0. The samples
\* range over -32768 (bytes 0, 128) and 32767 (bytes 255, 127) among others.
C16_Normalised ==
  buffer.status = "ok" =>
    \A ch \in DOMAIN buffer.channels : \A j \in DOMAIN buffer.channels[ch] :
      LET v == buffer.channels[ch][j]
      IN /\ v # NaN
         /\ v[2] > 0
         /\ -v[2] <= v[1] /\ v[1] < v[2]
         /\ v[1] \in -32768..32767

\* C16 witness: a decoded channel holds the smallest and the largest sample
C16_Witness ==
  /\ buffer.status = "ok"
  /\ \E ch \in DOMAIN buffer.channels :
       \E j, k \in DOMAIN buffer.channels[ch] :
         /\ buffer.channels[ch][j] = <<-32768, 32768>>
         /\ buffer.channels[ch][k] = <<32767, 32768>>

\* C17: whenever a Feedback is displayed with a current prompt and no request
\* is loading, it is the result of an evaluation of a description of that
\* prompt: every evaluation that returned stored its result with its prompt
\* in the history, so some HistoryItem pairs the displayed Feedback with the
\* current prompt.
C17_FeedbackOfCurrentPrompt ==
  (~unmounted /\ ~feedback.isNull /\ currentPrompt # NoPrompt /\ ~isLoading) =>
    \E i \in DOMAIN history :
      history[i].feedback = feedback /\ history[i].prompt.id = currentPrompt.id

\* C18: the step in which a request fails changes only the loading flag, the
\* set of requests in flight and, for a lesson, possibly the credential flag:
\* the current prompt, the displayed feedback, the learner text, the media
\* type and the history, its length included, are what they were before it.
\* The step that starts a request changes none of them either: what
\* handleStartLesson clears on entry is already clear on the setup screen.
C18_FailureFrame ==
  [][/\ (inflight' \ inflight # {}) =>
          <<currentPrompt', history', feedback', userText', mediaType', hasApiKey'>> =
          <<currentPrompt, history, feedback, userText, mediaType, hasApiKey>>
     /\ (last'.pc = "threw") =>
       /\ \E c \in inflight : c.id = last'.id /\ inflight' = inflight \ {c}
       /\ isLoading /\ ~isLoading'
       /\ currentPrompt' = currentPrompt
       /\ history' = history
       /\ feedback' = feedback
       /\ userText' = userText
       /\ mediaType' = mediaType
       /\ unmounted' = unmounted
       /\ <<keyCheck', keyDialog'>> = <<keyCheck, keyDialog>>
       /\ (hasApiKey' # hasApiKey) =>
            (last'.kind = "lesson" /\ NeedsKey(last'.error) /\ ~hasApiKey')]_vars

\* C18 witness: an evaluation has just failed while a prompt and an earlier
\* HistoryItem exist, and no item carries the id of the failed request
C18_Witness ==
  /\ last.kind = "eval" /\ last.pc = "threw"
  /\ currentPrompt # NoPrompt /\ Len(history) = 1
  /\ \A i \in DOMAIN history : history[i].id # last.id

\* the handlePlayAudio calls, running or just finished
Plays == {p \in plays \cup {lastPlay} : p.id # 0}

\* a part of a speech response that carries a non-empty inline payload
HasAudio(part) == part \notin {"text", ""}

\* C12: for every speech response, generateSpeech throws its explicit error
\* exactly when no part of the response carries an inline audio payload, and
\* otherwise returns the first such payload, in response order; what it
\* returns is never empty.
C12_FirstAudioPayload ==
  \A p \in Plays : p.responded =>
    LET audio == {i \in DOMAIN p.parts : HasAudio(p.parts[i])}
    IN IF audio = {}
       THEN p.speechError = "No audio data received"
       ELSE /\ p.speechError = ""
            /\ p.base64Audio # ""
            /\ p.base64Audio = p.parts[CHOOSE i \in audio : \A j \in audio : i <= j]

\* C14: at most one AudioContext is ever constructed; none exists before a
\* playback request has constructed it, and every playback that got past the
\* construction runs on the context the ref holds. Once the ref holds a
\* context no step replaces it, clears it or constructs another one.
C14_OneContext ==
  /\ [](/\ Cardinality(contexts) <= 1
        /\ (audioContextRef = NoContext) <=> (contexts = {})
        /\ contexts = {} => plays = {} /\ \A p \in Plays : p.error = "AudioContext"
        /\ contexts # {} => nextPlay > 1
        /\ \A p \in Plays : p.pc \in {"speech", "playing", "ended"} \/ p.ctx # NoContext =>
             p.ctx # NoContext /\ p.ctx = audioContextRef)
  /\ [][audioContextRef # NoContext =>
          audioContextRef' = audioContextRef /\ contexts' = contexts]_vars

\* C14 witness: the second playback has ended, on the context of the first
C14_Witness ==
  /\ lastPlay.id = 2 /\ lastPlay.pc = "ended" /\ lastPlay.ctx = 1
  /\ audioContextRef = 1 /\ contexts = {1}

\* C19: at most one handlePlayAudio call is running, and one is running
\* exactly while the playing flag is set; no call starts while the flag is
\* set; and a set flag is cleared again, when the audio ends or a step of the
\* attempt fails, unless the component has been unmounted meanwhile.
C19_PlaybackEnds ==
  /\ [](/\ Cardinality(plays) <= 1
        /\ plays # {} => isPlayingAudio
        /\ (isPlayingAudio /\ ~unmounted) => plays # {})
  /\ [][isPlayingAudio => {p.id : p \in plays'} \subseteq {p.id : p \in plays}]_vars
  /\ ((isPlayingAudio /\ ~unmounted) ~> (~isPlayingAudio \/ unmounted))

\* C19 witness: an audio has just ended and the play control is enabled again
C19_Witness ==
  /\ lastPlay.pc = "ended" /\ lastPlay.id = 1
  /\ ~isPlayingAudio /\ CanPlayAudio
====
